---- MODULE Spec2Model ----
(***************************************************************************)
(* Model of src/utils.js: sendUpdateEmbed and its formatting helpers.      *)
(*                                                                         *)
(* Strings that the code transforms character by character (capitalize,    *)
(* formatHtmlChangelog, trimChangelog) are sequences of UTF-16 code units; *)
(* strings that the code only passes along are TLA+ strings or tuples of   *)
(* the pieces a template literal concatenates.                             *)
(***************************************************************************)
EXTENDS Integers, Sequences, FiniteSets, TLC

VARIABLES
    requestedProject, \* [Invocations -> the project's API data]        (argument)
    dbProject,        \* [Invocations -> the project's database data]   (argument)
    upstream,         \* [Invocations -> what the platform API answers to the request]
    trackedTable,     \* TrackedProjects table: [project id -> sequence of rows]
    guildsTable,      \* Guilds table: [guild id -> settings row or NoRow]
    pc,               \* [Invocations -> the await point the invocation is suspended at]
    response,         \* [Invocations -> const response]
    versionData,      \* [slot -> let versionData]
    trackedProjects,  \* [Invocations -> const trackedProjects]
    idx,              \* [Invocations -> position of the for..of iterator]
    inFlight,         \* [Invocations -> rows whose channel.send has not settled]
    log,              \* [Invocations -> calls made on the collaborators, in order]
    fault,            \* [Invocations -> what the returned promise rejected with]
    call              \* a call of one of the pure helpers: arguments and result

vars == <<requestedProject, dbProject, upstream, trackedTable, guildsTable, pc,
          response, versionData, trackedProjects, idx, inFlight, log, fault, call>>

envVars == <<requestedProject, dbProject, upstream, trackedTable, guildsTable>>

runVars == <<pc, response, versionData, trackedProjects, idx, inFlight, log, fault>>

----------------------------------------------------------------------------
(* Bounds *)

MaxRows == 2        \* longest TrackedProjects.findAll result
MaxStrLen == 5      \* longest helper argument
Invocations == {1, 2}

----------------------------------------------------------------------------
(* Strings as sequences of code units *)

S_release == <<114, 101, 108, 101, 97, 115, 101>>
S_beta == <<98, 101, 116, 97>>
S_alpha == <<97, 108, 112, 104, 97>>
S_unknownReleaseType ==
    <<117, 110, 107, 110, 111, 119, 110, 82, 101, 108, 101, 97, 115, 101, 84, 121, 112, 101>>
S_curseforge == <<99, 117, 114, 115, 101, 102, 111, 114, 103, 101>>
S_modrinth == <<109, 111, 100, 114, 105, 110, 116, 104>>
S_hangar == <<104, 97, 110, 103, 97, 114>>
S_dots == <<46, 46, 46>>
S_br == <<60, 98, 114, 62>>

Max(a, b) == IF a > b THEN a ELSE b
Min(a, b) == IF a < b THEN a ELSE b

\* String.prototype.slice(begin, end) for begin = 0
Slice0(s, end) ==
    LET e == IF end < 0 THEN Max(Len(s) + end, 0) ELSE Min(end, Len(s))
    IN  SubSeq(s, 1, e)

Drop(s, n) == SubSeq(s, n + 1, Len(s))

\* String.fromCharCode(string.charCodeAt(0) - 32): charCodeAt of an empty
\* string is NaN, and fromCharCode takes its argument modulo 2^16 (NaN -> 0).
ShiftedFirst(string) ==
    IF string = <<>> THEN <<0>> ELSE <<(string[1] - 32) % 65536>>

\* String.prototype.replace(pattern, replacement) with a string pattern of at
\* most one code unit: the first occurrence only. A one-unit replacement
\* holds no $-pattern.
ReplaceFirst(s, pattern, replacement) ==
    IF pattern = <<>> THEN replacement \o s
    ELSE IF \E k \in 1..Len(s) : s[k] = pattern[1]
         THEN LET k == CHOOSE k \in 1..Len(s) :
                          s[k] = pattern[1] /\ \A j \in 1..(k - 1) : s[j] # pattern[1]
              IN  SubSeq(s, 1, k - 1) \o replacement \o Drop(s, k)
         ELSE s

capitalize(string) ==
    ReplaceFirst(string, SubSeq(string, 1, Min(1, Len(string))), ShiftedFirst(string))

IsLineTerminator(c) == c \in {10, 13, 8232, 8233}
IsWordChar(c) == c \in (48..57) \cup (65..90) \cup (97..122) \cup {95}

\* .replace(/<br>/g, '\n')
RECURSIVE ReplaceBr(_)
ReplaceBr(s) ==
    IF s = <<>> THEN <<>>
    ELSE IF Len(s) >= 4 /\ SubSeq(s, 1, 4) = S_br THEN <<10>> \o ReplaceBr(Drop(s, 4))
    ELSE <<s[1]>> \o ReplaceBr(Tail(s))

\* .replace(/<.*?>/g, ''): from a '<' to the nearest '>' with no line
\* terminator in between
RECURSIVE RemoveTags(_)
RemoveTags(s) ==
    IF s = <<>> THEN <<>>
    ELSE LET Closes(j) == s[j] = 62 /\ \A k \in 2..(j - 1) : ~IsLineTerminator(s[k])
         IN  IF s[1] = 60 /\ \E j \in 2..Len(s) : Closes(j)
             THEN LET j == CHOOSE j \in 2..Len(s) :
                               Closes(j) /\ \A m \in 2..(j - 1) : ~Closes(m)
                  IN  RemoveTags(Drop(s, j))
             ELSE <<s[1]>> \o RemoveTags(Tail(s))

\* .replace(/&\w*?;/g, ''): '&', word characters, ';'
RECURSIVE RemoveEntities(_)
RemoveEntities(s) ==
    IF s = <<>> THEN <<>>
    ELSE LET Closes(j) == s[j] = 59 /\ \A k \in 2..(j - 1) : IsWordChar(s[k])
         IN  IF s[1] = 38 /\ \E j \in 2..Len(s) : Closes(j)
             THEN LET j == CHOOSE j \in 2..Len(s) : Closes(j)
                  IN  RemoveEntities(Drop(s, j))
             ELSE <<s[1]>> \o RemoveEntities(Tail(s))

formatHtmlChangelog(changelog) == RemoveEntities(RemoveTags(ReplaceBr(changelog)))

trimChangelog(changelog, maxLength) ==
    LET formattedChangelog == formatHtmlChangelog(changelog)
    IN  IF Len(formattedChangelog) > maxLength
        THEN Slice0(formattedChangelog, maxLength - 3) \o S_dots
        ELSE formattedChangelog

releaseTypeToString(releaseType) ==
    CASE releaseType = 1 -> S_release
      [] releaseType = 2 -> S_beta
      [] releaseType = 3 -> S_alpha
      [] OTHER -> S_unknownReleaseType

classIdToUrlString(classId) ==
    CASE classId = 5 -> "bukkit-plugins"
      [] classId = 6 -> "mc-mods"
      [] classId = 12 -> "texture-packs"
      [] classId = 17 -> "worlds"
      [] classId = 4471 -> "modpacks"
      [] classId = 4546 -> "customization"
      [] classId = 4559 -> "mc-addons"
      [] OTHER -> "unknownClassIdValue"

embedAuthorData(platform) ==
    CASE platform = S_curseforge ->
            [name |-> "From curseforge.com", iconURL |-> "https://i.imgur.com/uA9lFcz.png",
             url |-> "https://curseforge.com"]
      [] platform = S_modrinth ->
            [name |-> "From modrinth.com", iconURL |-> "https://i.imgur.com/2XDguyk.png",
             url |-> "https://modrinth.com"]
      [] OTHER -> [name |-> "From unknown source"]

embedColorData(platform) ==
    CASE platform = S_curseforge -> "#f87a1b"
      [] platform = S_modrinth -> "#1bd96a"
      [] OTHER -> "DarkGreen"

----------------------------------------------------------------------------
(* The collaborators' data: arguments, upstream answers, tables, cache *)

ProjectId(i) == IF i = 1 THEN "p1" ELSE "p2"

File(pid, n, releaseType) ==
    [id |-> <<pid, "file", n>>, fileDate |-> <<pid, "fileDate", n>>,
     displayName |-> <<pid, "displayName", n>>, fileName |-> <<pid, "fileName", n>>,
     releaseType |-> releaseType]

CurseForgeProject(pid, latestFiles, classId) ==
    [id |-> <<pid, "cf">>, latestFiles |-> latestFiles, logo |-> [url |-> <<pid, "logo">>],
     classId |-> classId, slug |-> <<pid, "slug">>,
     latestFilesIndexes |-> <<[fileId |-> <<pid, "indexFile">>]>>]

ModrinthProject(pid) ==
    [id |-> <<pid, "mr">>, icon_url |-> <<pid, "icon">>, project_type |-> "mod",
     slug |-> <<pid, "slug">>]

DbProject(pid, platform) == [id |-> pid, platform |-> platform, name |-> <<pid, "name">>]

Changelog(pid) ==
    IF pid = "p1"
    THEN <<60, 98, 62, 97, 98, 99, 100, 101, 102, 103, 104, 60, 47, 98, 62>>
    ELSE <<120, 60, 98, 114, 62, 121, 38, 97, 109, 112, 59, 122>>

ModrinthVersion(pid, n, versionType) ==
    [changelog |-> Changelog(pid), date_published |-> <<pid, "date_published", n>>,
     name |-> <<pid, "versionName", n>>, version_number |-> <<pid, "version_number", n>>,
     version_type |-> versionType]

TimedOut == [timedOut |-> TRUE, statusCode |-> 0, body |-> <<>>]
Answer(statusCode, body) == [timedOut |-> FALSE, statusCode |-> statusCode, body |-> body]

Event(rp, dbp, answers) == [requestedProject |-> rp, dbProject |-> dbp, answers |-> answers]

CurseForgeAnswers(pid) ==
    {TimedOut} \cup {Answer(s, [data |-> Changelog(pid)]) : s \in {200, 404, 500}}

ModrinthAnswers(pid) ==
    {TimedOut, Answer(500, <<ModrinthVersion(pid, 1, S_release)>>), Answer(200, <<>>),
     Answer(200, <<ModrinthVersion(pid, 1, S_release)>>),
     Answer(200, <<ModrinthVersion(pid, 2, S_beta), ModrinthVersion(pid, 1, S_release)>>)}

\* The update events a caller can pass, each with the answers the platform can give
Events(pid) ==
    { Event(CurseForgeProject(pid, <<File(pid, 1, 1), File(pid, 2, 3)>>, 6),
            DbProject(pid, S_curseforge), CurseForgeAnswers(pid)),
      Event(CurseForgeProject(pid, <<File(pid, 3, 9)>>, 99),
            DbProject(pid, S_curseforge), CurseForgeAnswers(pid)),
      Event(CurseForgeProject(pid, <<>>, 6), DbProject(pid, S_curseforge), {TimedOut}),
      Event(ModrinthProject(pid), DbProject(pid, S_modrinth), ModrinthAnswers(pid)),
      Event(ModrinthProject(pid), DbProject(pid, S_hangar), {TimedOut}) }

\* The events of two concurrent updates: both platforms, upstream answering 200
ConcurrentEvents(pid) ==
    { Event(CurseForgeProject(pid, <<File(pid, 1, 1), File(pid, 2, 3)>>, 6),
            DbProject(pid, S_curseforge), {Answer(200, [data |-> Changelog(pid)])}),
      Event(ModrinthProject(pid), DbProject(pid, S_modrinth),
            {Answer(200, <<ModrinthVersion(pid, 1, S_release)>>)}) }

Row(guildId, channelId) == [guildId |-> guildId, channelId |-> channelId]

\* client.guilds.cache and each guild's channels.cache
GuildIds == {"g1", "g2", "g3"}
CachedGuilds == {"g1", "g2"}
CachedChannels(guildId) == {"c1"}

TrackedRows == {Row("g1", "c1"), Row("g2", "c1"), Row("g1", "c2"), Row("g3", "c1")}
ConcurrentRows == {Row("g1", "c1"), Row("g2", "c1"), Row("g3", "c1")}

SeqsUpTo(S, n) == UNION {[1..k -> S] : k \in 0..n}

NoRow == [exists |-> FALSE, notificationStyle |-> "", changelogMaxLength |-> 0]
Settings(style, max) == [exists |-> TRUE, notificationStyle |-> style, changelogMaxLength |-> max]
SettingsRows == {NoRow, Settings("compact", 4000), Settings("normal", 6), Settings("normal", 4000)}

GuildsTables ==
    {[g \in GuildIds |-> IF g = "g1" THEN a ELSE IF g = "g2" THEN b ELSE NoRow] :
        a \in SettingsRows, b \in SettingsRows}

ConcurrentGuildsTable ==
    [g \in GuildIds |-> IF g = "g1" THEN Settings("compact", 4000)
                        ELSE IF g = "g2" THEN Settings("normal", 6) ELSE NoRow]

NoVersionData == [undefined |-> TRUE]
NoResponse == [undefined |-> TRUE]
NoCall == [fn |-> "none", string |-> <<>>, maxLength |-> 0, returned |-> FALSE, ret |-> <<>>]

----------------------------------------------------------------------------
(* sendUpdateEmbed *)

Ev(kind, row, data) == [kind |-> kind, row |-> row, data |-> data]

Last(s) == s[Len(s)]

PlatformCaseElse(platform) ==
    IF platform = S_curseforge THEN "curseforge" ELSE "modrinth"

PlatformCase(platform) ==
    CASE platform = S_curseforge -> "curseforge"
      [] platform = S_modrinth -> "modrinth"
      [] OTHER -> "default"

IsTimeout(r) == r.timedOut
UnexpectedStatusOnly404(r) == r.statusCode = 404
UnexpectedStatus(r) == r.statusCode # 200

VersionSlotShared(i) == 1

\* let versionData is a local of the invocation
VersionSlot(i) == i

CurseForgeVersionData(rp, rawData) ==
    [changelog |-> rawData.data,
     date |-> Last(rp.latestFiles).fileDate,
     iconURL |-> rp.logo.url,
     name |-> Last(rp.latestFiles).displayName,
     number |-> Last(rp.latestFiles).fileName,
     type |-> capitalize(releaseTypeToString(Last(rp.latestFiles).releaseType)),
     url |-> <<"https://www.curseforge.com/minecraft/", classIdToUrlString(rp.classId), "/",
               rp.slug, "/files/", rp.latestFilesIndexes[1].fileId>>]

ModrinthVersionData(rp, rawData) ==
    [changelog |-> rawData[1].changelog,
     date |-> rawData[1].date_published,
     iconURL |-> rp.icon_url,
     name |-> rawData[1].name,
     number |-> rawData[1].version_number,
     type |-> capitalize(rawData[1].version_type),
     url |-> <<"https://modrinth.com/", rp.project_type, "/", rp.slug, "/version/",
               rawData[1].version_number>>]

CompactMessage(dbp, vd) ==
    [embeds |-> <<[color |-> embedColorData(dbp.platform),
                   description |-> <<vd.number, " (", vd.type, ")">>,
                   footer |-> [text |-> <<"MMM D, YYYY", vd.date>>,
                               iconURL |-> IF "iconURL" \in DOMAIN embedAuthorData(dbp.platform)
                                           THEN embedAuthorData(dbp.platform).iconURL
                                           ELSE "null"],
                   title |-> <<dbp.name, " ", vd.name>>,
                   url |-> vd.url]>>,
     components |-> <<>>]

FullMessage(dbp, vd, guildSettings) ==
    [embeds |-> <<[author |-> embedAuthorData(dbp.platform),
                   color |-> embedColorData(dbp.platform),
                   description |-> <<"**Changelog**: ", "codeBlock",
                                     trimChangelog(vd.changelog, guildSettings.changelogMaxLength)>>,
                   fields |-> <<[name |-> "Version Name", value |-> vd.name],
                                [name |-> "Version Number", value |-> vd.number],
                                [name |-> "Release Type", value |-> vd.type],
                                [name |-> "Date Published", value |-> <<"<t:", vd.date, ":f>">>]>>,
                   thumbnail |-> vd.iconURL,
                   timestamp |-> "now",
                   title |-> <<dbp.name, " has been updated">>]>>,
     components |-> <<[label |-> <<"View on ", capitalize(dbp.platform)>>, style |-> "Link",
                       url |-> vd.url]>>]

StyleCaseCapitalized(guildSettings) ==
    IF guildSettings.notificationStyle = "Compact" THEN "compact" ELSE "default"

StyleCase(guildSettings) ==
    IF guildSettings.notificationStyle = "compact" THEN "compact" ELSE "default"

Message(dbp, vd, guildSettings) ==
    IF StyleCase(guildSettings) = "compact" THEN CompactMessage(dbp, vd)
    ELSE FullMessage(dbp, vd, guildSettings)

GuildResolves(row) == row.guildId \in CachedGuilds
ChannelResolves(row) == GuildResolves(row) /\ row.channelId \in CachedChannels(row.guildId)

RunLoopBreak(rows, k, lg) ==
    IF k > Len(rows) THEN [pc |-> "done", idx |-> k, log |-> lg]
    ELSE IF ~GuildResolves(rows[k])
         THEN [pc |-> "done", idx |-> k,
               log |-> Append(lg, Ev("warn", k, <<"no guild", rows[k].guildId>>))]
    ELSE IF ~ChannelResolves(rows[k])
         THEN [pc |-> "done", idx |-> k,
               log |-> Append(lg, Ev("warn", k, <<"no channel", rows[k].channelId>>))]
    ELSE [pc |-> "awaitSettings", idx |-> k,
          log |-> Append(lg, Ev("findByPk", k, rows[k].guildId))]

\* The for..of loop from row k up to its next await: a row whose guild or
\* channel is not cached is warned about and skipped; the first other row
\* suspends the loop in Guilds.findByPk; past the last row the function returns.
RECURSIVE RunLoop(_, _, _)
RunLoop(rows, k, lg) ==
    IF k > Len(rows) THEN [pc |-> "done", idx |-> k, log |-> lg]
    ELSE IF ~GuildResolves(rows[k])
         THEN RunLoop(rows, k + 1, Append(lg, Ev("warn", k, <<"no guild", rows[k].guildId>>)))
    ELSE IF ~ChannelResolves(rows[k])
         THEN RunLoop(rows, k + 1, Append(lg, Ev("warn", k, <<"no channel", rows[k].channelId>>)))
    ELSE [pc |-> "awaitSettings", idx |-> k,
          log |-> Append(lg, Ev("findByPk", k, rows[k].guildId))]

Throw(i, error) ==
    /\ pc' = [pc EXCEPT ![i] = "rejected"]
    /\ fault' = [fault EXCEPT ![i] = error]

Return(i, lg) ==
    /\ pc' = [pc EXCEPT ![i] = "done"]
    /\ log' = [log EXCEPT ![i] = lg]
    /\ UNCHANGED fault

\* Lines 14-21, 42-44, 63-64: the call, up to the first await or the default return
Call(i) ==
    /\ pc[i] = "ready"
    /\ LET rp == requestedProject[i]
           branch == PlatformCase(dbProject[i].platform)
       IN  CASE branch = "curseforge" ->
                    IF rp.latestFiles = <<>>
                    THEN Throw(i, "TypeError") /\ UNCHANGED log
                    ELSE /\ pc' = [pc EXCEPT ![i] = "awaitResponse"]
                         /\ log' = [log EXCEPT ![i] = Append(@,
                                Ev("request", 0, <<"getModFileChangelog", rp.id,
                                                   Last(rp.latestFiles).id>>))]
                         /\ UNCHANGED fault
              [] branch = "modrinth" ->
                    /\ pc' = [pc EXCEPT ![i] = "awaitResponse"]
                    /\ log' = [log EXCEPT ![i] = Append(@,
                                Ev("request", 0, <<"listProjectVersions", rp.id>>))]
                    /\ UNCHANGED fault
              [] OTHER -> Return(i, Append(log[i], Ev("warn", 0, <<"not implemented">>)))
    /\ UNCHANGED <<envVars, response, versionData, trackedProjects, idx, inFlight, call>>

\* Lines 21-25, 44-48: the upstream answer arrives
ResponseArrives(i) ==
    /\ pc[i] = "awaitResponse"
    /\ LET r == upstream[i]
           lg == Append(log[i], Ev("response", 0, <<>>))
       IN  /\ response' = [response EXCEPT ![i] = r]
           /\ IF IsTimeout(r)
              THEN Return(i, Append(lg, Ev("warn", 0, <<"timed out">>)))
              ELSE IF UnexpectedStatus(r)
              THEN Return(i, Append(lg, Ev("warn", 0, <<"Unexpected status", r.statusCode>>)))
              ELSE /\ pc' = [pc EXCEPT ![i] = "awaitJSON"]
                   /\ log' = [log EXCEPT ![i] = Append(lg, Ev("getJSONResponse", 0, <<>>))]
                   /\ UNCHANGED fault
    /\ UNCHANGED <<envVars, versionData, trackedProjects, idx, inFlight, call>>

\* Lines 25-40, 48-61, 68: the body is parsed, versionData is built and logged,
\* and the tracked rows are asked for
JSONParsed(i) ==
    /\ pc[i] = "awaitJSON"
    /\ LET rp == requestedProject[i]
           rawData == response[i].body
           branch == PlatformCase(dbProject[i].platform)
           Built(vd) ==
               /\ versionData' = [versionData EXCEPT ![VersionSlot(i)] = vd]
               /\ pc' = [pc EXCEPT ![i] = "awaitFindAll"]
               /\ log' = [log EXCEPT ![i] =
                            @ \o <<Ev("debug", 0, vd), Ev("findAll", 0, dbProject[i].id)>>]
               /\ UNCHANGED fault
       IN  IF branch = "curseforge" THEN Built(CurseForgeVersionData(rp, rawData))
           ELSE IF rawData = <<>>
                THEN Throw(i, "TypeError") /\ UNCHANGED <<versionData, log>>
                ELSE Built(ModrinthVersionData(rp, rawData))
    /\ UNCHANGED <<envVars, response, trackedProjects, idx, inFlight, call>>

\* Lines 68-85: the rows arrive and the loop runs up to its first await
FindAllReturns(i) ==
    /\ pc[i] = "awaitFindAll"
    /\ LET rows == trackedTable[dbProject[i].id]
           next == RunLoop(rows, 1, Append(log[i], Ev("rows", 0, Len(rows))))
       IN  /\ trackedProjects' = [trackedProjects EXCEPT ![i] = rows]
           /\ pc' = [pc EXCEPT ![i] = next.pc]
           /\ idx' = [idx EXCEPT ![i] = next.idx]
           /\ log' = [log EXCEPT ![i] = next.log]
    /\ UNCHANGED <<envVars, response, versionData, inFlight, fault, call>>

SettingsReturnRefetch(i) ==
    /\ pc[i] = "awaitSettings"
    /\ LET k == idx[i]
           row == trackedProjects[i][k]
           guildSettings == guildsTable[row.guildId]
       IN  IF ~guildSettings.exists
           THEN /\ Throw(i, "TypeError")
                /\ log' = [log EXCEPT ![i] = Append(@, Ev("settings", k, guildSettings))]
                /\ UNCHANGED inFlight
           ELSE /\ pc' = [pc EXCEPT ![i] = "awaitSend"]
                /\ log' = [log EXCEPT ![i] = @ \o
                            <<Ev("settings", k, guildSettings),
                              Ev("request", k, <<"listProjectVersions", requestedProject[i].id>>),
                              Ev("send", k, [guildId |-> row.guildId, channelId |-> row.channelId,
                                             message |-> Message(dbProject[i],
                                                                 versionData[VersionSlot(i)],
                                                                 guildSettings)])>>]
                /\ inFlight' = [inFlight EXCEPT ![i] = @ \cup {k}]
                /\ UNCHANGED fault
    /\ UNCHANGED <<envVars, response, versionData, trackedProjects, idx, call>>

SettingsReturnNoAwait(i) ==
    /\ pc[i] = "awaitSettings"
    /\ LET k == idx[i]
           row == trackedProjects[i][k]
           guildSettings == guildsTable[row.guildId]
       IN  IF ~guildSettings.exists
           THEN /\ Throw(i, "TypeError")
                /\ log' = [log EXCEPT ![i] = Append(@, Ev("settings", k, guildSettings))]
                /\ UNCHANGED <<inFlight, idx>>
           ELSE LET next ==
                        RunLoop(trackedProjects[i], k + 1, log[i] \o
                            <<Ev("settings", k, guildSettings),
                              Ev("send", k, [guildId |-> row.guildId, channelId |-> row.channelId,
                                             message |-> Message(dbProject[i],
                                                                 versionData[VersionSlot(i)],
                                                                 guildSettings)])>>)
                IN  /\ pc' = [pc EXCEPT ![i] = next.pc]
                    /\ idx' = [idx EXCEPT ![i] = next.idx]
                    /\ log' = [log EXCEPT ![i] = next.log]
                    /\ inFlight' = [inFlight EXCEPT ![i] = @ \cup {k}]
                    /\ UNCHANGED fault
    /\ UNCHANGED <<envVars, response, versionData, trackedProjects, call>>

\* Lines 85-139: the guild's settings arrive, the message is built and channel.send is called
SettingsReturn(i) ==
    /\ pc[i] = "awaitSettings"
    /\ LET k == idx[i]
           row == trackedProjects[i][k]
           guildSettings == guildsTable[row.guildId]
       IN  IF ~guildSettings.exists
           THEN /\ Throw(i, "TypeError")
                /\ log' = [log EXCEPT ![i] = Append(@, Ev("settings", k, guildSettings))]
                /\ UNCHANGED inFlight
           ELSE /\ pc' = [pc EXCEPT ![i] = "awaitSend"]
                /\ log' = [log EXCEPT ![i] = @ \o
                            <<Ev("settings", k, guildSettings),
                              Ev("send", k, [guildId |-> row.guildId, channelId |-> row.channelId,
                                             message |-> Message(dbProject[i],
                                                                 versionData[VersionSlot(i)],
                                                                 guildSettings)])>>]
                /\ inFlight' = [inFlight EXCEPT ![i] = @ \cup {k}]
                /\ UNCHANGED fault
    /\ UNCHANGED <<envVars, response, versionData, trackedProjects, idx, call>>

\* Lines 88/103 -> 74-85: the send settles and the loop goes on to its next await
SendResolves(i) ==
    /\ pc[i] = "awaitSend"
    /\ LET k == idx[i]
           next == RunLoop(trackedProjects[i], k + 1, Append(log[i], Ev("sent", k, <<>>)))
       IN  /\ pc' = [pc EXCEPT ![i] = next.pc]
           /\ idx' = [idx EXCEPT ![i] = next.idx]
           /\ log' = [log EXCEPT ![i] = next.log]
           /\ inFlight' = [inFlight EXCEPT ![i] = @ \ {k}]
    /\ UNCHANGED <<envVars, response, versionData, trackedProjects, fault, call>>

\* Lines 88/103: channel.send rejects; nothing catches it
SendRejects(i) ==
    /\ pc[i] = "awaitSend"
    /\ Throw(i, "SendError")
    /\ log' = [log EXCEPT ![i] = Append(@, Ev("sendFailed", idx[i], <<>>))]
    /\ inFlight' = [inFlight EXCEPT ![i] = @ \ {idx[i]}]
    /\ UNCHANGED <<envVars, response, versionData, trackedProjects, idx, call>>

RunInit ==
    /\ response = [i \in Invocations |-> NoResponse]
    /\ versionData = [i \in Invocations |-> NoVersionData]
    /\ trackedProjects = [i \in Invocations |-> <<>>]
    /\ idx = [i \in Invocations |-> 0]
    /\ inFlight = [i \in Invocations |-> {}]
    /\ log = [i \in Invocations |-> <<>>]
    /\ fault = [i \in Invocations |-> "none"]

\* One update event, every argument, answer and table content
Init ==
    /\ \E ev \in Events(ProjectId(1)) :
          /\ requestedProject = [i \in Invocations |-> ev.requestedProject]
          /\ dbProject = [i \in Invocations |-> ev.dbProject]
          /\ \E a \in ev.answers : upstream = [i \in Invocations |-> a]
    /\ \E rows \in SeqsUpTo(TrackedRows, MaxRows) :
          trackedTable = [p \in {ProjectId(i) : i \in Invocations} |->
                            IF p = ProjectId(1) THEN rows ELSE <<>>]
    /\ guildsTable \in GuildsTables
    /\ pc = [i \in Invocations |-> IF i = 1 THEN "ready" ELSE "absent"]
    /\ RunInit
    /\ call = NoCall

Next ==
    \E i \in Invocations :
        \/ Call(i)
        \/ ResponseArrives(i)
        \/ JSONParsed(i)
        \/ FindAllReturns(i)
        \/ SettingsReturn(i)
        \/ SendResolves(i)
        \/ SendRejects(i)

Spec == Init /\ [][Next]_vars

\* Two update events for different projects, their invocations interleaved
InitConcurrent ==
    /\ \E e1 \in ConcurrentEvents(ProjectId(1)), e2 \in ConcurrentEvents(ProjectId(2)) :
          /\ requestedProject = [i \in Invocations |->
                                   IF i = 1 THEN e1.requestedProject ELSE e2.requestedProject]
          /\ dbProject = [i \in Invocations |-> IF i = 1 THEN e1.dbProject ELSE e2.dbProject]
          /\ \E a1 \in e1.answers, a2 \in e2.answers :
                upstream = [i \in Invocations |-> IF i = 1 THEN a1 ELSE a2]
    /\ trackedTable \in [{ProjectId(i) : i \in Invocations} -> SeqsUpTo(ConcurrentRows, MaxRows)]
    /\ guildsTable = ConcurrentGuildsTable
    /\ pc = [i \in Invocations |-> "ready"]
    /\ RunInit
    /\ call = NoCall

SpecConcurrent == InitConcurrent /\ [][Next]_vars

----------------------------------------------------------------------------
(* The pure helpers, called on every argument up to the bounds *)

HtmlChars == {60, 62, 98, 114, 38, 59}      \* < > b r & ;
CapitalizeChars == {97, 122, 77, 49, 32}    \* a z M 1 space

HelperCalls(maxLen) ==
    {[fn |-> "trimChangelog", string |-> s, maxLength |-> n, returned |-> FALSE, ret |-> <<>>] :
        s \in SeqsUpTo(HtmlChars, maxLen), n \in 0..(maxLen + 1)}
    \cup
    {[fn |-> "capitalize", string |-> s, maxLength |-> 0, returned |-> FALSE, ret |-> <<>>] :
        s \in SeqsUpTo(CapitalizeChars, maxLen)}

CallTrimChangelog ==
    /\ call.fn = "trimChangelog" /\ ~call.returned
    /\ call' = [call EXCEPT !.returned = TRUE, !.ret = trimChangelog(call.string, call.maxLength)]
    /\ UNCHANGED <<envVars, runVars>>

CallCapitalize ==
    /\ call.fn = "capitalize" /\ ~call.returned
    /\ call' = [call EXCEPT !.returned = TRUE, !.ret = capitalize(call.string)]
    /\ UNCHANGED <<envVars, runVars>>

InitHelpers ==
    /\ call \in HelperCalls(MaxStrLen)
    /\ requestedProject = [i \in Invocations |-> ModrinthProject(ProjectId(i))]
    /\ dbProject = [i \in Invocations |-> DbProject(ProjectId(i), S_modrinth)]
    /\ upstream = [i \in Invocations |-> TimedOut]
    /\ trackedTable = [p \in {ProjectId(i) : i \in Invocations} |-> <<>>]
    /\ guildsTable = ConcurrentGuildsTable
    /\ pc = [i \in Invocations |-> "absent"]
    /\ RunInit

NextHelpers == CallTrimChangelog \/ CallCapitalize

SpecHelpers == InitHelpers /\ [][NextHelpers]_vars

----------------------------------------------------------------------------
(* Properties *)

Positions(i, kind) == {p \in 1..Len(log[i]) : log[i][p].kind = kind}
Count(i, kind) == Cardinality(Positions(i, kind))
RowEvents(i, kind, k) == {p \in Positions(i, kind) : log[i][p].row = k}
Started(i) == pc[i] \notin {"absent", "ready"}
AtRest(i) == pc[i] \in {"done", "rejected"}
Supported(i) == dbProject[i].platform \in {S_curseforge, S_modrinth}
Resolvable(rows) == {k \in 1..Len(rows) : ChannelResolves(rows[k])}
Tracked(i) == trackedTable[dbProject[i].id]

IsCompactMessage(m) ==
    /\ m.components = <<>>
    /\ "footer" \in DOMAIN m.embeds[1]
    /\ "author" \notin DOMAIN m.embeds[1]

IsFullMessage(m) ==
    /\ Len(m.components) = 1
    /\ m.components[1].style = "Link"
    /\ "author" \in DOMAIN m.embeds[1]

\* Every version field a message shows is the field of version record vd
DerivedFrom(m, vd, guildSettings) ==
    LET embed == m.embeds[1]
    IN  IF m.components = <<>>
        THEN /\ embed.description[1] = vd.number
             /\ embed.description[3] = vd.type
             /\ embed.footer.text[2] = vd.date
             /\ embed.title[3] = vd.name
             /\ embed.url = vd.url
        ELSE /\ embed.description[3] = trimChangelog(vd.changelog, guildSettings.changelogMaxLength)
             /\ embed.fields[1].value = vd.name
             /\ embed.fields[2].value = vd.number
             /\ embed.fields[3].value = vd.type
             /\ embed.fields[4].value[2] = vd.date
             /\ embed.thumbnail = vd.iconURL
             /\ m.components[1].url = vd.url

\* C1: on a supported platform (curseforge with a non-empty latestFiles), once
\* the upstream call has returned null or a status other than 200, the
\* invocation has returned without throwing, with exactly one warning, no
\* tracked-project lookup, no settings lookup and no send, whatever the
\* number of tracked rows.
FailedFetchIsWarnedNoOp ==
    \A i \in Invocations :
        ( /\ Started(i) /\ pc[i] # "awaitResponse"
          /\ Supported(i)
          /\ (dbProject[i].platform = S_curseforge => requestedProject[i].latestFiles # <<>>)
          /\ (upstream[i].timedOut \/ upstream[i].statusCode # 200) )
        => /\ pc[i] = "done"
           /\ fault[i] = "none"
           /\ Count(i, "warn") = 1
           /\ Count(i, "findAll") = 0
           /\ Count(i, "findByPk") = 0
           /\ Count(i, "send") = 0

FailedFetchWitness ==
    \E i \in Invocations :
        /\ pc[i] = "done"
        /\ dbProject[i].platform = S_modrinth
        /\ ~upstream[i].timedOut /\ upstream[i].statusCode = 500
        /\ Len(Tracked(i)) = 2
        /\ Resolvable(Tracked(i)) = {1, 2}

\* C2: an invocation issues at most one upstream request and builds at most
\* one version record; every message it sends is sent after exactly one
\* request and one build, while versionData still is the record built, and
\* shows the fields of that record.
OneFetchOneVersionData ==
    \A i \in Invocations :
        /\ Count(i, "request") <= 1
        /\ Count(i, "debug") <= 1
        /\ \A p \in Positions(i, "send") :
              /\ Cardinality({q \in Positions(i, "request") : q < p}) = 1
              /\ Cardinality({q \in Positions(i, "debug") : q < p}) = 1
              /\ \A q \in Positions(i, "debug") :
                    /\ versionData[i] = log[i][q].data
                    /\ DerivedFrom(log[i][p].data.message, log[i][q].data,
                                   guildsTable[log[i][p].data.guildId])

OneFetchWitness ==
    \E i \in Invocations :
        /\ pc[i] = "done"
        /\ Count(i, "send") = 2
        /\ \E p, q \in Positions(i, "send") :
              /\ IsCompactMessage(log[i][p].data.message)
              /\ IsFullMessage(log[i][q].data.message)

\* C3: once the tracked rows have arrived, every row the loop has passed whose
\* guild or channel is not cached has exactly one warning and no send, and no
\* row has more than one send; when the invocation is over, no send has failed
\* and every resolved row's guild has settings, the invocation has returned
\* without throwing and exactly the rows that resolve have one send each (none
\* for an empty list).
UnresolvedRowsAreSkipped ==
    \A i \in Invocations :
        Count(i, "rows") = 1 =>
            LET rows == trackedProjects[i]
            IN  /\ rows = Tracked(i)
                /\ \A k \in 1..Len(rows) :
                      /\ Cardinality(RowEvents(i, "send", k)) <= 1
                      /\ (k \notin Resolvable(rows) /\ (k < idx[i] \/ pc[i] = "done")) =>
                            /\ Cardinality(RowEvents(i, "warn", k)) = 1
                            /\ RowEvents(i, "send", k) = {}
                /\ ( /\ AtRest(i)
                     /\ Count(i, "sendFailed") = 0
                     /\ \A k \in Resolvable(rows) : guildsTable[rows[k].guildId].exists )
                   => /\ pc[i] = "done" /\ fault[i] = "none"
                      /\ Count(i, "send") = Cardinality(Resolvable(rows))
                      /\ Count(i, "warn") = Len(rows) - Cardinality(Resolvable(rows))
                      /\ \A k \in Resolvable(rows) :
                            /\ Cardinality(RowEvents(i, "send", k)) = 1
                            /\ RowEvents(i, "warn", k) = {}

UnresolvedRowsWitness ==
    \E i \in Invocations :
        /\ pc[i] = "done"
        /\ Len(trackedProjects[i]) = 2
        /\ ~GuildResolves(trackedProjects[i][1])
        /\ Resolvable(trackedProjects[i]) = {2}
        /\ Count(i, "send") = 1
        /\ Count(i, "warn") = 1

\* C4: when a channel.send has failed and the invocation is over, every other
\* tracked row whose guild and channel resolve (and whose guild has settings)
\* has received its message.
SendFailureDoesNotBlockOthers ==
    \A i \in Invocations :
        (AtRest(i) /\ Count(i, "sendFailed") > 0) =>
            \A k \in Resolvable(Tracked(i)) :
                ( /\ RowEvents(i, "sendFailed", k) = {}
                  /\ guildsTable[Tracked(i)[k].guildId].exists )
                => RowEvents(i, "send", k) # {}

\* C5: on a platform that is neither curseforge nor modrinth, the invocation
\* has returned without throwing as soon as it was called, and all it did was
\* log one warning: no upstream request, no lookup, no send.
UnsupportedPlatformIsWarnedNoOp ==
    \A i \in Invocations :
        (Started(i) /\ ~Supported(i)) =>
            /\ pc[i] = "done"
            /\ fault[i] = "none"
            /\ Len(log[i]) = 1
            /\ log[i][1].kind = "warn"

UnsupportedPlatformWitness ==
    \E i \in Invocations :
        /\ pc[i] = "done"
        /\ dbProject[i].platform = S_hangar
        /\ Len(Tracked(i)) = 2

\* C6: every message sent goes to the guild and channel of its own row and is
\* the compact message if and only if the settings of that row's guild say
\* 'compact', the full message with the link button otherwise, never both; no
\* row is sent more than one message, and when the invocation returns every
\* resolved row has been sent exactly one.
StyleFollowsOwnGuildSettings ==
    \A i \in Invocations :
        /\ \A p \in Positions(i, "send") :
              LET e == log[i][p]
                  row == trackedProjects[i][e.row]
                  own == guildsTable[row.guildId]
              IN  /\ e.data.guildId = row.guildId
                  /\ e.data.channelId = row.channelId
                  /\ own.exists
                  /\ IsCompactMessage(e.data.message) <=> own.notificationStyle = "compact"
                  /\ IsFullMessage(e.data.message) <=> own.notificationStyle # "compact"
                  /\ ~(IsCompactMessage(e.data.message) /\ IsFullMessage(e.data.message))
        /\ \A k \in 1..Len(trackedProjects[i]) : Cardinality(RowEvents(i, "send", k)) <= 1
        /\ (pc[i] = "done" /\ Count(i, "rows") = 1) =>
              \A k \in Resolvable(trackedProjects[i]) : Cardinality(RowEvents(i, "send", k)) = 1

StyleWitness ==
    \E i \in Invocations :
        /\ pc[i] = "done"
        /\ Len(trackedProjects[i]) = 2
        /\ trackedProjects[i][1].guildId # trackedProjects[i][2].guildId
        /\ \E p, q \in Positions(i, "send") :
              /\ p < q
              /\ IsFullMessage(log[i][p].data.message)
              /\ IsCompactMessage(log[i][q].data.message)

\* C7: trimChangelog returns the HTML-stripped text unchanged when it is at
\* most maxLength long, and otherwise exactly maxLength characters, the first
\* maxLength - 3 of the text followed by "..."; never more than maxLength.
TrimChangelogWithinMaxLength ==
    (call.fn = "trimChangelog" /\ call.returned) =>
        LET text == formatHtmlChangelog(call.string)
            n == call.maxLength
        IN  /\ Len(text) <= n => call.ret = text
            /\ Len(text) > n =>
                  /\ Len(call.ret) = n
                  /\ SubSeq(call.ret, n - 2, n) = S_dots
                  /\ SubSeq(call.ret, 1, n - 3) = SubSeq(text, 1, n - 3)
            /\ Len(call.ret) <= n

ToUpperCase(c) == IF c \in 97..122 THEN c - 32 ELSE c

\* C8: capitalize of a non-empty string is the string with its first
\* character in upper case and the rest unchanged.
CapitalizeUppercasesFirstOnly ==
    (call.fn = "capitalize" /\ call.returned /\ call.string # <<>>) =>
        call.ret = <<ToUpperCase(call.string[1])>> \o Tail(call.string)

\* C9: in the order of an invocation's calls, the upstream answer precedes the
\* tracked-project lookup, the rows precede every settings fetch and send,
\* sends follow row order, every send has settled before the next settings
\* fetch or send, and at most one send is in flight.
StepsAreSequential ==
    \A i \in Invocations :
        LET L == log[i]
        IN  /\ \A p \in Positions(i, "findAll") : \E q \in Positions(i, "response") : q < p
            /\ \A p \in Positions(i, "findByPk") \cup Positions(i, "send") :
                  \E q \in Positions(i, "rows") : q < p
            /\ \A p, q \in Positions(i, "send") : p < q => L[p].row < L[q].row
            /\ \A p \in Positions(i, "send") :
                  \A q \in Positions(i, "findByPk") \cup Positions(i, "send") :
                      p < q => \E r \in RowEvents(i, "sent", L[p].row) : p < r /\ r < q
            /\ Cardinality(inFlight[i]) <= 1
            /\ (inFlight[i] # {} => pc[i] = "awaitSend" /\ inFlight[i] = {idx[i]})

StepsWitness ==
    \E i \in Invocations :
        /\ pc[i] = "awaitSend"
        /\ Count(i, "send") = 2
        /\ Count(i, "sent") = 1
        /\ inFlight[i] = {2}

ExpectedVersionData(i) ==
    IF dbProject[i].platform = S_curseforge
    THEN CurseForgeVersionData(requestedProject[i], upstream[i].body)
    ELSE ModrinthVersionData(requestedProject[i], upstream[i].body)

ExpectedRequest(i) ==
    IF dbProject[i].platform = S_curseforge
    THEN <<"getModFileChangelog", requestedProject[i].id, Last(requestedProject[i].latestFiles).id>>
    ELSE <<"listProjectVersions", requestedProject[i].id>>

ExpectedSend(i, k) ==
    [guildId |-> Tracked(i)[k].guildId, channelId |-> Tracked(i)[k].channelId,
     message |-> Message(dbProject[i], ExpectedVersionData(i), guildsTable[Tracked(i)[k].guildId])]

Sends(i) == SelectSeq(log[i], LAMBDA e : e.kind = "send")

\* C10: however two invocations for different projects interleave, each one's
\* upstream request and sequence of sends are those its own arguments, answer
\* and tables determine (the n-th send goes to the n-th resolving row with the
\* message built from its own answer, and a completed invocation has sent to
\* all of them), and no message shows the version data of the other project.
ConcurrentInvocationsAreIndependent ==
    \A i \in Invocations :
        /\ Count(i, "request") <= 1
        /\ \A p \in Positions(i, "request") : log[i][p].data = ExpectedRequest(i)
        /\ \A n \in 1..Len(Sends(i)) :
              LET k == Sends(i)[n].row
              IN  /\ k \in Resolvable(Tracked(i))
                  /\ Cardinality({j \in Resolvable(Tracked(i)) : j <= k}) = n
                  /\ Sends(i)[n].data = ExpectedSend(i, k)
                  /\ \A j \in Invocations \ {i} :
                        ~DerivedFrom(Sends(i)[n].data.message, ExpectedVersionData(j),
                                     guildsTable[Sends(i)[n].data.guildId])
        /\ (pc[i] = "done" /\ upstream[i].statusCode = 200) =>
              Len(Sends(i)) = Cardinality(Resolvable(Tracked(i)))

ConcurrentWitness ==
    /\ pc[1] = "awaitSend" /\ pc[2] = "awaitSend"
    /\ Count(1, "send") = 2 /\ Count(2, "send") = 2
    /\ dbProject[1].platform # dbProject[2].platform

====
